---- MODULE Spec2Model ----
(***************************************************************************)
(* A model of src/ETL.py: the normalisation of one wide CSV into           *)
(* relational sheets (find_col, make_account_id, build_relational_sheets)  *)
(* and the command around it (main).                                       *)
(*                                                                         *)
(* Text is a sequence of one-character strings, so that str.strip,         *)
(* str.lower, concatenation and the regular-expression filter are          *)
(* computed on characters.  The values pandas uses that are not text       *)
(* (NaN, NaT, None, a Timestamp, a float) are sequences whose head is a    *)
(* tag of several characters, which no text starts with.                   *)
(*                                                                         *)
(* Of the 40 logical columns of EXPECTED_COLS the model carries eleven:    *)
(* every key column, the three inputs of the AccountID, one date column,   *)
(* one numeric column and one plain attribute.                             *)
(***************************************************************************)
EXTENDS Integers, Sequences, FiniteSets, TLC

VARIABLES
    pc,          \* position of main: "start", "read", "transform", "write", "summary", "exit"
    file,        \* the CSV on disk: raw headers and raw text cells
    df,          \* the loaded frame (main's df), mutated in place by the transform
    outcome,     \* of build_relational_sheets: "none", "returned" or "raised"
    sheets,      \* the dict build_relational_sheets returned
    phases,      \* the phases main has run so far, in order, each with its success
    exit_code,   \* the process exit status, -1 while the process runs
    stdout,      \* the summary printed on success: sheet name and row count
    fc,          \* one call of find_col: arguments and result
    ma           \* two calls of make_account_id: arguments and results

vars == <<pc, file, df, outcome, sheets, phases, exit_code, stdout, fc, ma>>

----------------------------------------------------------------------------
(* Bounds of the model *)

MaxRows == 2

MaxCols == 2

MainMaxRows == 1

MainMaxCols == 2

MaxFindCols == 3

MaxStrLen == 1

----------------------------------------------------------------------------
(* Values that are not text *)

None == <<"<None>">>

NaN == <<"<NaN>">>

NaT == <<"<NaT>">>

Timestamp(iso) == <<"<Timestamp>">> \o iso

Float(digits) == <<"<float>">> \o digits

IsTagged(v) == Len(v) > 0 /\ v[1] \in {"<None>", "<NaN>", "<NaT>", "<Timestamp>", "<float>"}

----------------------------------------------------------------------------
(* Text constants *)

L_CustomerID == <<"C", "u", "s", "t", "o", "m", "e", "r", " ", "I", "D">>

L_FirstName == <<"F", "i", "r", "s", "t", " ", "N", "a", "m", "e">>

L_AccountType == <<"A", "c", "c", "o", "u", "n", "t", " ", "T", "y", "p", "e">>

L_DateOfAccountOpening == <<"D", "a", "t", "e", " ", "O", "f", " ", "A", "c", "c", "o", "u", "n", "t", " ", "O", "p", "e", "n", "i", "n", "g">>

L_AccountBalance == <<"A", "c", "c", "o", "u", "n", "t", " ", "B", "a", "l", "a", "n", "c", "e">>

L_TransactionID == <<"T", "r", "a", "n", "s", "a", "c", "t", "i", "o", "n", "I", "D">>

L_BranchID == <<"B", "r", "a", "n", "c", "h", " ", "I", "D">>

L_LoanID == <<"L", "o", "a", "n", " ", "I", "D">>

L_CardID == <<"C", "a", "r", "d", "I", "D">>

L_FeedbackID == <<"F", "e", "e", "d", "b", "a", "c", "k", " ", "I", "D">>

L_Anomaly == <<"A", "n", "o", "m", "a", "l", "y">>

N_CustomerID == <<"C", "u", "s", "t", "o", "m", "e", "r", "I", "D">>

N_AccountID == <<"A", "c", "c", "o", "u", "n", "t", "I", "D">>

N_AccountType == <<"A", "c", "c", "o", "u", "n", "t", "T", "y", "p", "e">>

N_DateOfAccountOpening == <<"D", "a", "t", "e", "O", "f", "A", "c", "c", "o", "u", "n", "t", "O", "p", "e", "n", "i", "n", "g">>

N_AccountBalance == <<"A", "c", "c", "o", "u", "n", "t", "B", "a", "l", "a", "n", "c", "e">>

N_BranchID == <<"B", "r", "a", "n", "c", "h", "I", "D">>

N_LoanID == <<"L", "o", "a", "n", "I", "D">>

N_FeedbackID == <<"F", "e", "e", "d", "b", "a", "c", "k", "I", "D">>

N_Anomaly == <<"A", "n", "o", "m", "a", "l", "y">>

\* Headers as a file may spell them
H_customer_id_padded == <<" ", "c", "u", "s", "t", "o", "m", "e", "r", " ", "i", "d", " ">>

H_CustomerID_trailing == <<"C", "u", "s", "t", "o", "m", "e", "r", " ", "I", "D", " ">>

H_CUSTOMER_ID == <<"C", "U", "S", "T", "O", "M", "E", "R", " ", "I", "D">>

\* Cell texts
T_iso == <<"2", "0", "2", "3", "-", "0", "1", "-", "0", "5">>

T_NA == <<"N", "A">>

T_N_A == <<"N", "/", "A">>

T_money == <<"$", "5">>

T_abc == <<"a", "b", "c">>

T_nan == <<"n", "a", "n">>

T_NaT == <<"N", "a", "T">>

T_ACC == <<"A", "C", "C", "_">>

----------------------------------------------------------------------------
(* str.strip and str.lower *)

Range(s) == {s[i] : i \in DOMAIN s}

Whitespace == {" ", "\t"}

UpperCase == <<"A", "B", "C", "D", "E", "F", "G", "H", "I", "J", "K", "L", "M", "N", "O", "P", "Q", "R", "S", "T", "U", "V", "W", "X", "Y", "Z">>

LowerCase == <<"a", "b", "c", "d", "e", "f", "g", "h", "i", "j", "k", "l", "m", "n", "o", "p", "q", "r", "s", "t", "u", "v", "w", "x", "y", "z">>

LowerOf == [ch \in Range(UpperCase) |-> LowerCase[CHOOSE i \in DOMAIN UpperCase : UpperCase[i] = ch]]

LowerChar(ch) == IF ch \in DOMAIN LowerOf THEN LowerOf[ch] ELSE ch

Lower(s) == [i \in 1..Len(s) |-> LowerChar(s[i])]

RECURSIVE LStrip(_)
LStrip(s) == IF s # <<>> /\ Head(s) \in Whitespace THEN LStrip(Tail(s)) ELSE s

RECURSIVE RStrip(_)
RStrip(s) ==
    IF s # <<>> /\ s[Len(s)] \in Whitespace THEN RStrip(SubSeq(s, 1, Len(s) - 1)) ELSE s

Strip(s) == RStrip(LStrip(s))

----------------------------------------------------------------------------
(* find_col, src/ETL.py:51-58 *)

\* the for loop from position i on
RECURSIVE find_col_from(_, _, _)
find_col_from(df_cols, target_key, i) ==
    IF i > Len(df_cols) THEN None
    ELSE IF df_cols[i] = None THEN find_col_from(df_cols, target_key, i + 1)
    ELSE IF Lower(Strip(df_cols[i])) = target_key THEN df_cols[i]
    ELSE find_col_from(df_cols, target_key, i + 1)

\* a find_col that returns the last match
RECURSIVE find_col_last_from(_, _, _)
find_col_last_from(df_cols, target_key, i) ==
    IF i < 1 THEN None
    ELSE IF df_cols[i] = None THEN find_col_last_from(df_cols, target_key, i - 1)
    ELSE IF Lower(Strip(df_cols[i])) = target_key THEN df_cols[i]
    ELSE find_col_last_from(df_cols, target_key, i - 1)

find_col_last(df_cols, target) ==
    find_col_last_from(df_cols, Lower(Strip(target)), Len(df_cols))

find_col(df_cols, target) ==
    find_col_from(df_cols, Lower(Strip(target)), 1)

----------------------------------------------------------------------------
(* make_account_id, src/ETL.py:61-64 *)

\* Python's  x or ''  : the empty text for a falsy x (None, ''), x otherwise.
\* NaN is a float other than zero, hence truthy.
OrEmpty(x) == IF x = None \/ x = <<>> THEN <<>> ELSE x

\* str(x), as an f-string and astype(str) format a value
AsStr(x) ==
    IF x = NaN THEN T_nan
    ELSE IF x = NaT THEN T_NaT
    ELSE IF x = None THEN <<"N", "o", "n", "e">>
    ELSE IF IsTagged(x) /\ x[1] = "<Timestamp>" THEN Tail(x)
    ELSE IF IsTagged(x) /\ x[1] = "<float>" THEN Tail(x) \o <<".", "0">>
    ELSE x

\* hashlib.sha1(...).hexdigest()[:12], taken as an injective function of the
\* text it digests: the digest of a text is represented by that text.
Sha1Hex12(base) == base

\* a make_account_id that joins the components without the separator
make_account_id_nosep(customer_id, account_type, open_date) ==
    T_ACC \o Sha1Hex12(AsStr(OrEmpty(customer_id)) \o AsStr(OrEmpty(account_type))
                       \o AsStr(OrEmpty(open_date)))

make_account_id(customer_id, account_type, open_date) ==
    LET base == AsStr(OrEmpty(customer_id)) \o <<"|">> \o AsStr(OrEmpty(account_type))
                \o <<"|">> \o AsStr(OrEmpty(open_date))
    IN  T_ACC \o Sha1Hex12(base)

----------------------------------------------------------------------------
(* The pandas operations the transform uses, on a frame                    *)
(*   [columns |-> <<label, ...>>, rows |-> <<row, ...>>],                  *)
(* a row being the sequence of its cells in column order.                  *)

NotNone(s) == SelectSeq(s, LAMBDA x : x # None)

\* the positions of the columns labelled `label`, ascending
RECURSIVE PositionsFrom(_, _, _)
PositionsFrom(columns, label, i) ==
    IF i > Len(columns) THEN <<>>
    ELSE (IF columns[i] = label THEN <<i>> ELSE <<>>) \o PositionsFrom(columns, label, i + 1)

Positions(frame, label) == PositionsFrom(frame.columns, label, 1)

RECURSIVE PositionsOfAll(_, _)
PositionsOfAll(frame, labels) ==
    IF labels = <<>> THEN <<>>
    ELSE Positions(frame, Head(labels)) \o PositionsOfAll(frame, Tail(labels))

Project(row, ps) == [k \in 1..Len(ps) |-> row[ps[k]]]

\* df[[label, ...]]
Select(frame, labels) ==
    LET ps == PositionsOfAll(frame, labels)
    IN  [columns |-> Project(frame.columns, ps),
         rows    |-> [r \in 1..Len(frame.rows) |-> Project(frame.rows[r], ps)]]

\* df[label] = values : replaces the column of that label, or appends it
SetColumn(frame, label, values) ==
    LET ps == Positions(frame, label)
    IN  IF ps = <<>>
        THEN [columns |-> Append(frame.columns, label),
              rows    |-> [r \in 1..Len(frame.rows) |-> Append(frame.rows[r], values[r])]]
        ELSE [columns |-> frame.columns,
              rows    |-> [r \in 1..Len(frame.rows) |->
                             [k \in 1..Len(frame.columns) |->
                                IF frame.columns[k] = label THEN values[r]
                                ELSE frame.rows[r][k]]]]

\* df[label] of a label that names one column: its cells, row by row
Column(frame, label) ==
    [r \in 1..Len(frame.rows) |-> frame.rows[r][Positions(frame, label)[1]]]

\* DataFrame.drop(columns=[...], errors="ignore")
DropColumns(frame, labels) ==
    LET ps == SelectSeq([k \in 1..Len(frame.columns) |-> k],
                        LAMBDA k : frame.columns[k] \notin Range(labels))
    IN  [columns |-> Project(frame.columns, ps),
         rows    |-> [r \in 1..Len(frame.rows) |-> Project(frame.rows[r], ps)]]

\* a duplicated() for which a key holding a missing value equals no other
IsDuplicateNaNDistinct(key, seen) ==
    key \in seen /\ \A k \in DOMAIN key : key[k] \notin {NaN, NaT}

\* pandas' duplicated(): a key is a duplicate of an earlier one when it equals
\* it, the missing marker being equal to itself
IsDuplicate(key, seen) == key \in seen

\* the indices drop_duplicates(keep="first") keeps, from index i on
RECURSIVE KeptFrom(_, _, _)
KeptFrom(keys, i, seen) ==
    IF i > Len(keys) THEN <<>>
    ELSE IF IsDuplicate(keys[i], seen) THEN KeptFrom(keys, i + 1, seen)
    ELSE <<i>> \o KeptFrom(keys, i + 1, seen \cup {keys[i]})

\* the indices a drop_duplicates(keep="last") keeps
KeptLast(keys) ==
    SelectSeq([i \in 1..Len(keys) |-> i],
              LAMBDA i : \A j \in (i + 1)..Len(keys) : keys[j] # keys[i])

\* the argument subset=None of drop_duplicates
SubsetNone == <<None>>

\* a drop_duplicates that keeps the last row of each key
drop_duplicates_last(frame, subset) ==
    LET ps   == IF subset = SubsetNone THEN [k \in 1..Len(frame.columns) |-> k]
                ELSE PositionsOfAll(frame, subset)
        keys == [r \in 1..Len(frame.rows) |-> Project(frame.rows[r], ps)]
        kept == KeptLast(keys)
    IN  [columns |-> frame.columns, rows |-> Project(frame.rows, kept)]

\* DataFrame.drop_duplicates(subset=...), subset=None meaning every column
drop_duplicates(frame, subset) ==
    LET ps   == IF subset = SubsetNone THEN [k \in 1..Len(frame.columns) |-> k]
                ELSE PositionsOfAll(frame, subset)
        keys == [r \in 1..Len(frame.rows) |-> Project(frame.rows[r], ps)]
        kept == KeptFrom(keys, 1, {})
    IN  [columns |-> frame.columns, rows |-> Project(frame.rows, kept)]

\* DataFrame.dropna(subset=[label])
dropna(frame, label) ==
    LET p == Positions(frame, label)[1]
    IN  [columns |-> frame.columns,
         rows    |-> SelectSeq(frame.rows, LAMBDA row : row[p] \notin {NaN, NaT})]

\* DataFrame.rename(columns=m), m a sequence of <<actual, new>> entries in the
\* order the dict was filled (a later entry for the same key replaces an earlier)
RenamedLabel(label, m) ==
    LET hits == SelectSeq(m, LAMBDA e : e[1] = label)
    IN  IF hits = <<>> THEN label ELSE hits[Len(hits)][2]

rename(frame, m) ==
    [columns |-> [k \in 1..Len(frame.columns) |-> RenamedLabel(frame.columns[k], m)],
     rows    |-> frame.rows]

\* the entries of a rename dict whose key was resolved
RenameMap(entries) == SelectSeq(entries, LAMBDA e : e[1] # None)

\* pd.DataFrame(columns=[...])
EmptyFrame(labels) == [columns |-> labels, rows |-> <<>>]

----------------------------------------------------------------------------
(* Type coercion, src/ETL.py:73-92 *)

Digits == {"0", "1", "2", "3", "4", "5", "6", "7", "8", "9"}

AllDigits(s, from, to) == \A i \in from..to : s[i] \in Digits

\* pd.to_datetime(..., errors="coerce") of one cell: the layouts YYYY-MM-DD
\* and MM/DD/YYYY are parsed, a missing or any other text becomes NaT, and
\* a value already coerced is left as it is.
to_datetime(v) ==
    IF IsTagged(v) THEN (IF v[1] = "<Timestamp>" THEN v ELSE NaT)
    ELSE IF Len(v) = 10 /\ v[5] = "-" /\ v[8] = "-"
            /\ AllDigits(v, 1, 4) /\ AllDigits(v, 6, 7) /\ AllDigits(v, 9, 10)
        THEN Timestamp(v)
    ELSE IF Len(v) = 10 /\ v[3] = "/" /\ v[6] = "/"
            /\ AllDigits(v, 1, 2) /\ AllDigits(v, 4, 5) /\ AllDigits(v, 7, 10)
        THEN Timestamp(SubSeq(v, 7, 10) \o <<"-">> \o SubSeq(v, 1, 2) \o <<"-">> \o SubSeq(v, 4, 5))
    ELSE NaT

\* .astype(str).str.replace(r"[^\d\.\-eE]", "", regex=True) of one cell
NumericText(v) == SelectSeq(AsStr(v), LAMBDA ch : ch \in Digits \cup {".", "-", "e", "E"})

\* pd.to_numeric(..., errors="coerce") of one filtered text.  The cell texts
\* of the model hold no sign, point or exponent, so what is left of a cell
\* is a run of digits (a number) or not a number at all.
to_numeric(s) ==
    IF s # <<>> /\ AllDigits(s, 1, Len(s)) THEN Float(s) ELSE NaN

\* the date columns and the numeric columns the model carries
date_cols == <<L_DateOfAccountOpening>>

numeric_cols == <<L_AccountBalance>>

\* lines 79-81, for one name of date_cols
CoerceDate(frame, cols, dc) ==
    LET actual == find_col(cols, dc)
    IN  IF actual = None \/ actual = <<>> THEN frame
        ELSE SetColumn(frame, actual,
                       [r \in 1..Len(frame.rows) |-> to_datetime(Column(frame, actual)[r])])

\* lines 89-92, for one name of numeric_cols
CoerceNumeric(frame, cols, nc) ==
    LET actual == find_col(cols, nc)
    IN  IF actual = None \/ actual = <<>> THEN frame
        ELSE SetColumn(frame, actual,
                       [r \in 1..Len(frame.rows) |->
                          to_numeric(NumericText(Column(frame, actual)[r]))])

RECURSIVE CoerceDates(_, _, _)
CoerceDates(frame, cols, names) ==
    IF names = <<>> THEN frame
    ELSE CoerceDates(CoerceDate(frame, cols, Head(names)), cols, Tail(names))

RECURSIVE CoerceNumerics(_, _, _)
CoerceNumerics(frame, cols, names) ==
    IF names = <<>> THEN frame
    ELSE CoerceNumerics(CoerceNumeric(frame, cols, Head(names)), cols, Tail(names))

\* the frame after lines 73-92
Coerced(frame) ==
    CoerceNumerics(CoerceDates(frame, frame.columns, date_cols), frame.columns, numeric_cols)

----------------------------------------------------------------------------
(* Account ID derivation, src/ETL.py:94-107 *)

TMP_open_date == <<"__account_open_date_str">>

TMP_customer_id == <<"__customer_id_str">>

\* line 101: the opening date as text, or "" for every row without the column
WithOpenDateStr(frame, cols) ==
    LET open_date_col == find_col(cols, L_DateOfAccountOpening)
    IN  SetColumn(frame, TMP_open_date,
                  [r \in 1..Len(frame.rows) |->
                     IF open_date_col # None
                     THEN AsStr(Column(frame, open_date_col)[r])
                     ELSE <<>>])

\* line 102 raises when df[cust_col] is not one column: two columns carry
\* the same label once main has trimmed the headers, df[cust_col] is then a
\* frame of two columns, and assigning it to one column is a ValueError
CustColAmbiguous(frame, cols) ==
    Len(Positions(frame, find_col(cols, L_CustomerID))) > 1

\* lines 102-107
WithAccountID(frame, cols) ==
    LET cust_col      == find_col(cols, L_CustomerID)
        acct_type_col == find_col(cols, L_AccountType)
        f1 == WithOpenDateStr(frame, cols)
        f2 == SetColumn(f1, TMP_customer_id,
                        [r \in 1..Len(f1.rows) |-> AsStr(Column(f1, cust_col)[r])])
    IN  SetColumn(f2, N_AccountID,
                  [r \in 1..Len(f2.rows) |->
                     make_account_id(
                        Column(f2, TMP_customer_id)[r],
                        IF acct_type_col # None THEN Column(f2, acct_type_col)[r] ELSE <<>>,
                        Column(f2, TMP_open_date)[r])])

----------------------------------------------------------------------------
(* The tables, src/ETL.py:109-270.  w is the frame with its AccountID      *)
(* column, cols the column list taken at line 68.  The attribute columns   *)
(* the model does not carry are left out of the column lists.              *)

\* lines 109-114
CustomersTable(w, cols) ==
    LET cust_col       == find_col(cols, L_CustomerID)
        customers_cols == NotNone(<<cust_col, find_col(cols, L_FirstName)>>)
    IN  rename(drop_duplicates(Select(w, customers_cols), <<cust_col>>),
               <<<<cust_col, N_CustomerID>>>>)

\* lines 116-133
AccountsTable(w, cols) ==
    LET cust_col      == find_col(cols, L_CustomerID)
        acct_type_col == find_col(cols, L_AccountType)
        open_date_col == find_col(cols, L_DateOfAccountOpening)
        accounts_cols == NotNone(<<N_AccountID, cust_col, acct_type_col,
                                   find_col(cols, L_AccountBalance), open_date_col,
                                   find_col(cols, L_BranchID)>>)
        rename_map    == RenameMap(<<
                            <<cust_col, N_CustomerID>>,
                            <<acct_type_col, N_AccountType>>,
                            <<open_date_col, N_DateOfAccountOpening>>,
                            <<find_col(cols, L_AccountBalance), N_AccountBalance>>,
                            <<find_col(cols, L_BranchID), N_BranchID>> >>)
    IN  rename(drop_duplicates(Select(w, accounts_cols), <<N_AccountID>>), rename_map)

\* lines 135-158; the output name "TransactionID" is the logical name itself
TransactionsTable(w, cols) ==
    LET txid_col          == find_col(cols, L_TransactionID)
        transactions_cols == NotNone((IF txid_col # None THEN <<txid_col>> ELSE <<>>)
                                     \o <<N_AccountID, find_col(cols, L_BranchID)>>)
        tx_rename         == RenameMap(<<
                                <<txid_col, L_TransactionID>>,
                                <<find_col(cols, L_BranchID), N_BranchID>> >>)
        transactions      == rename(Select(w, transactions_cols), tx_rename)
    IN  IF L_TransactionID \in Range(transactions.columns)
        THEN drop_duplicates(transactions, <<L_TransactionID>>)
        ELSE transactions

\* a Loans table that keeps every row when it has no identifier
LoansTableKeepRows(w, cols) ==
    LET loanid_col  == find_col(cols, L_LoanID)
        cust_col    == find_col(cols, L_CustomerID)
        loans_cols  == NotNone((IF loanid_col # None THEN <<loanid_col>> ELSE <<>>)
                               \o <<cust_col, find_col(cols, L_BranchID)>>)
        loan_rename == RenameMap(<<
                          <<loanid_col, N_LoanID>>,
                          <<cust_col, N_CustomerID>>,
                          <<find_col(cols, L_BranchID), N_BranchID>> >>)
    IN  rename(IF loanid_col # None
               THEN drop_duplicates(Select(w, loans_cols), <<loanid_col>>)
               ELSE Select(w, loans_cols),
               loan_rename)

\* lines 160-187
LoansTable(w, cols) ==
    LET loanid_col  == find_col(cols, L_LoanID)
        cust_col    == find_col(cols, L_CustomerID)
        loans_cols  == NotNone((IF loanid_col # None THEN <<loanid_col>> ELSE <<>>)
                               \o <<cust_col, find_col(cols, L_BranchID)>>)
        loan_rename == RenameMap(<<
                          <<loanid_col, N_LoanID>>,
                          <<cust_col, N_CustomerID>>,
                          <<find_col(cols, L_BranchID), N_BranchID>> >>)
    IN  rename(drop_duplicates(Select(w, loans_cols),
                               IF loanid_col # None THEN <<loanid_col>> ELSE SubsetNone),
               loan_rename)

\* lines 189-217; the output name "CardID" is the logical name itself
CardsTable(w, cols) ==
    LET cardid_col  == find_col(cols, L_CardID)
        cust_col    == find_col(cols, L_CustomerID)
        cards_cols  == NotNone((IF cardid_col # None THEN <<cardid_col>> ELSE <<>>)
                               \o <<cust_col>>)
        card_rename == RenameMap(<<
                          <<cardid_col, L_CardID>>,
                          <<cust_col, N_CustomerID>> >>)
    IN  rename(drop_duplicates(Select(w, cards_cols),
                               IF cardid_col # None THEN <<cardid_col>> ELSE SubsetNone),
               card_rename)

\* lines 219-240
FeedbackTable(w, cols) ==
    LET feedbackid_col == find_col(cols, L_FeedbackID)
        cust_col       == find_col(cols, L_CustomerID)
        feedback_cols  == NotNone((IF feedbackid_col # None THEN <<feedbackid_col>> ELSE <<>>)
                                  \o <<cust_col>>)
        fb_rename      == RenameMap(<<
                             <<feedbackid_col, N_FeedbackID>>,
                             <<cust_col, N_CustomerID>> >>)
    IN  rename(drop_duplicates(Select(w, feedback_cols),
                               IF feedbackid_col # None THEN <<feedbackid_col>> ELSE SubsetNone),
               fb_rename)

\* a Branches table that leaves the missing branch out
BranchesTableDropNa(w, cols) ==
    LET branch_col == find_col(cols, L_BranchID)
    IN  IF branch_col # None
        THEN rename(drop_duplicates(dropna(Select(w, <<branch_col>>), branch_col), SubsetNone),
                    <<<<branch_col, N_BranchID>>>>)
        ELSE EmptyFrame(<<N_BranchID>>)

\* lines 242-248
BranchesTable(w, cols) ==
    LET branch_col == find_col(cols, L_BranchID)
    IN  IF branch_col # None
        THEN rename(drop_duplicates(Select(w, <<branch_col>>), SubsetNone),
                    <<<<branch_col, N_BranchID>>>>)
        ELSE EmptyFrame(<<N_BranchID>>)

\* an Anomalies table that keeps the rows without an anomaly
AnomaliesTableKeepNa(w, cols) ==
    LET anomaly_col == find_col(cols, L_Anomaly)
        cust_col    == find_col(cols, L_CustomerID)
    IN  IF anomaly_col # None /\ anomaly_col \in Range(w.columns)
        THEN rename(drop_duplicates(Select(w, <<cust_col, anomaly_col>>), SubsetNone),
                    <<<<cust_col, N_CustomerID>>, <<anomaly_col, N_Anomaly>>>>)
        ELSE EmptyFrame(<<N_CustomerID, N_Anomaly>>)

\* lines 250-257
AnomaliesTable(w, cols) ==
    LET anomaly_col == find_col(cols, L_Anomaly)
        cust_col    == find_col(cols, L_CustomerID)
    IN  IF anomaly_col # None /\ anomaly_col \in Range(w.columns)
        THEN rename(drop_duplicates(dropna(Select(w, <<cust_col, anomaly_col>>), anomaly_col),
                                    SubsetNone),
                    <<<<cust_col, N_CustomerID>>, <<anomaly_col, N_Anomaly>>>>)
        ELSE EmptyFrame(<<N_CustomerID, N_Anomaly>>)

\* lines 259-270: pd.DataFrame(dd_rows); a key a row's dict lacks is NaN
data_dictionary ==
    [columns |-> <<"Table", "PrimaryKey", "Notes", "ForeignKeys">>,
     rows    |-> <<
        <<"Customers", "CustomerID", "Customer master data", NaN>>,
        <<"Accounts", "AccountID", "One or more accounts per customer", "CustomerID">>,
        <<"Transactions", "TransactionID (may be null)", "Transaction records", "AccountID, BranchID">>,
        <<"Loans", "LoanID", "Loan records if present", "CustomerID, BranchID">>,
        <<"Cards", "CardID", "Credit card records", "CustomerID">>,
        <<"Feedback", "FeedbackID", "Customer feedback", "CustomerID">>,
        <<"Branches", "BranchID", "Branch identifiers", NaN>>,
        <<"Anomalies", "", "Rows flagged as anomalies (if any)", "CustomerID">> >>]

SheetNames ==
    <<"Customers", "Accounts", "Transactions", "Loans", "Cards", "Feedback",
      "Branches", "Anomalies", "DataDictionary">>

----------------------------------------------------------------------------
(* build_relational_sheets, src/ETL.py:67-286 *)

\* whether the call raises: line 99 (no Customer ID column) or line 102
Raises(frame) ==
    \/ find_col(frame.columns, L_CustomerID) = None
    \/ CustColAmbiguous(frame, frame.columns)

\* the frame as a call that raises leaves it: coerced in place, and, when
\* it is line 102 that raises, with the helper column line 101 added
FrameAfterRaise(frame) ==
    LET cols == frame.columns
        f    == Coerced(frame)
    IN  IF find_col(cols, L_CustomerID) = None THEN f ELSE WithOpenDateStr(f, cols)

\* a call that returns: the dict it returns, and the frame as it leaves it,
\* coerced in place, with the AccountID column and without the two helper
\* columns (line 272)
build_relational_sheets(frame) ==
    LET cols == frame.columns
        w    == WithAccountID(Coerced(frame), cols)
    IN  [df     |-> DropColumns(w, <<TMP_open_date, TMP_customer_id>>),
         sheets |-> [Customers      |-> CustomersTable(w, cols),
                     Accounts       |-> AccountsTable(w, cols),
                     Transactions   |-> TransactionsTable(w, cols),
                     Loans          |-> LoansTable(w, cols),
                     Cards          |-> CardsTable(w, cols),
                     Feedback       |-> FeedbackTable(w, cols),
                     Branches       |-> BranchesTable(w, cols),
                     Anomalies      |-> AnomaliesTable(w, cols),
                     DataDictionary |-> data_dictionary]]

\* what the variable sheets holds before the call and after a call that raised
NoSheets == <<>>

----------------------------------------------------------------------------
(* The input files of the model *)

\* the headers a file may carry, in the order it carries them
HeaderPool ==
    <<H_customer_id_padded, L_CustomerID, H_CustomerID_trailing, L_FirstName,
      L_AccountType, L_DateOfAccountOpening, L_AccountBalance, L_TransactionID,
      L_BranchID, L_LoanID, L_CardID, L_FeedbackID, L_Anomaly>>

\* the texts a cell under a header may hold
CellTexts(h) ==
    IF h \in {H_customer_id_padded, L_CustomerID, H_CustomerID_trailing} THEN {T_NA, <<"a">>}
    ELSE IF h = L_DateOfAccountOpening THEN {T_N_A, T_iso}
    ELSE IF h = L_AccountBalance THEN {T_money, T_abc}
    ELSE IF h \in {L_TransactionID, L_LoanID, L_CardID, L_FeedbackID} THEN {<<>>, <<"1">>}
    ELSE IF h = L_AccountType THEN {<<>>, <<"s">>}
    ELSE IF h = L_BranchID THEN {<<>>, <<"b">>}
    ELSE {<<>>, <<"x">>}

RECURSIVE Ascending(_)
Ascending(S) ==
    IF S = {} THEN <<>>
    ELSE LET m == CHOOSE x \in S : \A y \in S : x <= y
         IN  <<m>> \o Ascending(S \ {m})

HeaderLists(maxCols) ==
    {[k \in 1..Cardinality(S) |-> HeaderPool[Ascending(S)[k]]] :
        S \in {T \in SUBSET DOMAIN HeaderPool : Cardinality(T) <= maxCols}}

RECURSIVE RowsOf(_)
RowsOf(headers) ==
    IF headers = <<>> THEN {<<>>}
    ELSE {<<t>> \o rest : t \in CellTexts(Head(headers)), rest \in RowsOf(Tail(headers))}

\* file is one of the files of at most maxCols columns and maxRows rows
FileIsOneOf(maxCols, maxRows) ==
    \E hs \in HeaderLists(maxCols) : \E n \in 0..maxRows : \E rs \in [1..n -> RowsOf(hs)] :
        file = [headers |-> hs, rows |-> rs]

----------------------------------------------------------------------------
(* main, src/ETL.py:296-338 *)

\* pd.read_csv(dtype=str, keep_default_na=False, na_values=["", "NA", "N/A"])
na_values == {<<>>, T_NA, T_N_A}

read_csv(f) ==
    [columns |-> f.headers,
     rows    |-> [r \in 1..Len(f.rows) |->
                    [k \in 1..Len(f.headers) |->
                       IF f.rows[r][k] \in na_values THEN NaN ELSE f.rows[r][k]]]]

\* line 321: df.columns = [c.strip() ...]
TrimColumns(frame) ==
    [columns |-> [k \in 1..Len(frame.columns) |-> Strip(frame.columns[k])],
     rows    |-> frame.rows]

Load(f) == TrimColumns(read_csv(f))

NoFrame == EmptyFrame(<<>>)

Ran(phase, ok) == [phase |-> phase, ok |-> ok]

NoCall == [done |-> FALSE]

\* lines 308-311: the input file does not exist
InputMissing ==
    /\ pc = "start"
    /\ phases' = Append(phases, Ran("exists", FALSE))
    /\ exit_code' = 1
    /\ pc' = "exit"
    /\ UNCHANGED <<file, df, outcome, sheets, stdout, fc, ma>>

\* lines 308-309: it exists
InputFound ==
    /\ pc = "start"
    /\ phases' = Append(phases, Ran("exists", TRUE))
    /\ pc' = "read"
    /\ UNCHANGED <<file, df, outcome, sheets, exit_code, stdout, fc, ma>>

\* lines 313-318: read_csv raises
ReadFails ==
    /\ pc = "read"
    /\ phases' = Append(phases, Ran("read", FALSE))
    /\ exit_code' = 2
    /\ pc' = "exit"
    /\ UNCHANGED <<file, df, outcome, sheets, stdout, fc, ma>>

\* lines 313-321: the file is read and its headers are trimmed
ReadCsv ==
    /\ pc = "read"
    /\ phases' = Append(phases, Ran("read", TRUE))
    /\ df' = Load(file)
    /\ pc' = "transform"
    /\ UNCHANGED <<file, outcome, sheets, exit_code, stdout, fc, ma>>

\* a main that goes on to write after a transform that raised
TransformRaisesGoesOn ==
    /\ pc = "transform"
    /\ Raises(df)
    /\ phases' = Append(phases, Ran("transform", FALSE))
    /\ df' = FrameAfterRaise(df)
    /\ outcome' = "raised"
    /\ pc' = "write"
    /\ UNCHANGED <<file, sheets, exit_code, stdout, fc, ma>>

\* lines 323-327: build_relational_sheets raises
TransformRaises ==
    /\ pc = "transform"
    /\ Raises(df)
    /\ phases' = Append(phases, Ran("transform", FALSE))
    /\ df' = FrameAfterRaise(df)
    /\ outcome' = "raised"
    /\ exit_code' = 3
    /\ pc' = "exit"
    /\ UNCHANGED <<file, sheets, stdout, fc, ma>>

\* lines 323-324: build_relational_sheets returns
Transform ==
    /\ pc = "transform"
    /\ ~Raises(df)
    /\ phases' = Append(phases, Ran("transform", TRUE))
    /\ \E r \in {build_relational_sheets(df)} : df' = r.df /\ sheets' = r.sheets
    /\ outcome' = "returned"
    /\ pc' = "write"
    /\ UNCHANGED <<file, exit_code, stdout, fc, ma>>

\* lines 329-333: write_sheets_to_excel raises
WriteFails ==
    /\ pc = "write"
    /\ phases' = Append(phases, Ran("write", FALSE))
    /\ exit_code' = 4
    /\ pc' = "exit"
    /\ UNCHANGED <<file, df, outcome, sheets, stdout, fc, ma>>

\* lines 329-330: the sheets are written
WriteSheets ==
    /\ pc = "write"
    /\ phases' = Append(phases, Ran("write", TRUE))
    /\ pc' = "summary"
    /\ UNCHANGED <<file, df, outcome, sheets, exit_code, stdout, fc, ma>>

\* lines 335-338: the summary is printed and main returns
Summary ==
    /\ pc = "summary"
    /\ phases' = Append(phases, Ran("summary", TRUE))
    /\ stdout' = [i \in DOMAIN SheetNames |->
                    <<SheetNames[i], Len(sheets[SheetNames[i]].rows)>>]
    /\ exit_code' = 0
    /\ pc' = "exit"
    /\ UNCHANGED <<file, df, outcome, sheets, fc, ma>>

----------------------------------------------------------------------------
(* Spec: the transform step of main on every file of the model, main       *)
(* having found and read the file                                          *)

Init ==
    /\ FileIsOneOf(MaxCols, MaxRows)
    /\ df = Load(file)
    /\ pc = "transform"
    /\ phases = <<Ran("exists", TRUE), Ran("read", TRUE)>>
    /\ outcome = "none"
    /\ sheets = NoSheets
    /\ exit_code = -1
    /\ stdout = <<>>
    /\ fc = NoCall
    /\ ma = NoCall

Next == Transform \/ TransformRaises

Spec == Init /\ [][Next]_vars

----------------------------------------------------------------------------
(* SpecMain: main from its start to its exit *)

InitMain ==
    /\ FileIsOneOf(MainMaxCols, MainMaxRows)
    /\ df = NoFrame
    /\ pc = "start"
    /\ phases = <<>>
    /\ outcome = "none"
    /\ sheets = NoSheets
    /\ exit_code = -1
    /\ stdout = <<>>
    /\ fc = NoCall
    /\ ma = NoCall

NextMain ==
    \/ InputMissing
    \/ InputFound
    \/ ReadFails
    \/ ReadCsv
    \/ TransformRaises
    \/ Transform
    \/ WriteFails
    \/ WriteSheets
    \/ Summary

SpecMain == InitMain /\ [][NextMain]_vars

----------------------------------------------------------------------------
(* SpecFind: find_col on every short list of headers *)

FindPool == {None, L_CustomerID, H_customer_id_padded, H_CUSTOMER_ID, L_FirstName, <<" ">>}

FindTargets == {L_CustomerID, H_customer_id_padded, L_FirstName, L_Anomaly}

InitFind ==
    /\ \E n \in 0..MaxFindCols : \E cs \in [1..n -> FindPool] : \E t \in FindTargets :
          fc = [done |-> FALSE, cols |-> cs, target |-> t]
    /\ file = [headers |-> <<>>, rows |-> <<>>]
    /\ df = NoFrame
    /\ pc = "find_col"
    /\ phases = <<>>
    /\ outcome = "none"
    /\ sheets = NoSheets
    /\ exit_code = -1
    /\ stdout = <<>>
    /\ ma = NoCall

CallFindCol ==
    /\ pc = "find_col"
    /\ ~fc.done
    /\ fc' = [done |-> TRUE, cols |-> fc.cols, target |-> fc.target,
              result |-> find_col(fc.cols, fc.target)]
    /\ UNCHANGED <<pc, file, df, outcome, sheets, phases, exit_code, stdout, ma>>

NextFind == CallFindCol

SpecFind == InitFind /\ [][NextFind]_vars

----------------------------------------------------------------------------
(* SpecAcct: make_account_id on every two triples of short texts *)

AcctAlphabet == {"a", "|"}

AcctTexts == UNION {[1..n -> AcctAlphabet] : n \in 0..MaxStrLen}

AcctTriples == AcctTexts \X AcctTexts \X AcctTexts

InitAcct ==
    /\ \E a \in AcctTriples : \E b \in AcctTriples : ma = [done |-> FALSE, a |-> a, b |-> b]
    /\ file = [headers |-> <<>>, rows |-> <<>>]
    /\ df = NoFrame
    /\ pc = "make_account_id"
    /\ phases = <<>>
    /\ outcome = "none"
    /\ sheets = NoSheets
    /\ exit_code = -1
    /\ stdout = <<>>
    /\ fc = NoCall

CallMakeAccountId ==
    /\ pc = "make_account_id"
    /\ ~ma.done
    /\ ma' = [done |-> TRUE, a |-> ma.a, b |-> ma.b,
              id_a |-> make_account_id(ma.a[1], ma.a[2], ma.a[3]),
              id_b |-> make_account_id(ma.b[1], ma.b[2], ma.b[3])]
    /\ UNCHANGED <<pc, file, df, outcome, sheets, phases, exit_code, stdout, fc>>

NextAcct == CallMakeAccountId

SpecAcct == InitAcct /\ [][NextAcct]_vars

----------------------------------------------------------------------------
(* Reading a state: the cells of a frame, and where an output column comes *)
(* from in main's frame                                                    *)

Has(frame, label) == label \in Range(frame.columns)

Val(frame, r, label) == frame.rows[r][Positions(frame, label)[1]]

\* the column list build_relational_sheets resolved its names against
SrcCols == [k \in DOMAIN file.headers |-> Strip(file.headers[k])]

Resolved(name) == find_col(SrcCols, name)

Returned == outcome = "returned"

\* the label, in main's frame, of the column an output column is taken from
Source(out) ==
    CASE out = N_CustomerID           -> Resolved(L_CustomerID)
      [] out = N_AccountType          -> Resolved(L_AccountType)
      [] out = N_DateOfAccountOpening -> Resolved(L_DateOfAccountOpening)
      [] out = N_AccountBalance       -> Resolved(L_AccountBalance)
      [] out = N_BranchID             -> Resolved(L_BranchID)
      [] out = N_LoanID               -> Resolved(L_LoanID)
      [] out = N_FeedbackID           -> Resolved(L_FeedbackID)
      [] out = L_TransactionID        -> Resolved(L_TransactionID)
      [] out = L_CardID               -> Resolved(L_CardID)
      [] out = N_Anomaly              -> Resolved(L_Anomaly)
      [] OTHER                        -> out

\* input row i as table T shows it
ProjRow(T, i) == [q \in DOMAIN T.columns |-> Val(df, i, Source(T.columns[q]))]

Values(T, label) == {Val(T, j, label) : j \in DOMAIN T.rows}

Matches(label, target) == label # None /\ Lower(Strip(label)) = Lower(Strip(target))

----------------------------------------------------------------------------
(* C1 *)

\* C1: build_relational_sheets raises exactly when no column of its input
\* matches "Customer ID" (trimmed, case-insensitive), and otherwise returns
\* all nine tables.
C1_FailsOnlyWithoutCustomerID ==
    outcome # "none" =>
        /\ outcome = "raised" <=> (\A k \in DOMAIN SrcCols : ~Matches(SrcCols[k], L_CustomerID))
        /\ outcome = "returned" => DOMAIN sheets = Range(SheetNames)

----------------------------------------------------------------------------
(* C2 *)

NoSeparator(text) == \A i \in DOMAIN text : text[i] # "|"

\* C2 as stated: for any two triples of texts, the AccountIDs are equal
\* exactly when the triples are, whatever the texts hold, "|" included.
C2_InjectiveOnAllTexts ==
    ma.done => (ma.id_a = ma.id_b <=> ma.a = ma.b)

\* C2 amended: for any two triples of texts whose CustomerID and AccountType
\* hold no "|", the AccountIDs are equal exactly when the triples are.
C2_InjectiveWithoutSeparator ==
    (/\ ma.done
     /\ NoSeparator(ma.a[1]) /\ NoSeparator(ma.a[2])
     /\ NoSeparator(ma.b[1]) /\ NoSeparator(ma.b[2]))
    => (ma.id_a = ma.id_b <=> ma.a = ma.b)

C2_Witness ==
    /\ ma.done
    /\ NoSeparator(ma.a[1]) /\ NoSeparator(ma.a[2])
    /\ NoSeparator(ma.b[1]) /\ NoSeparator(ma.b[2])
    /\ ma.a[1] = ma.b[1] /\ ma.a[2] = ma.b[2]
    /\ ~NoSeparator(ma.a[3]) /\ ma.a[3] # ma.b[3]
    /\ ma.id_a # ma.id_b

----------------------------------------------------------------------------
(* C3 *)

\* C3: a row whose AccountType or opening date is missing (the missing
\* marker, or no such column) gets the AccountID of the same row with the
\* empty text in place of the missing component.
C3_MissingComponentIsEmpty ==
    Returned =>
        \A i \in DOMAIN df.rows :
            LET tcol == Resolved(L_AccountType)
                dcol == Resolved(L_DateOfAccountOpening)
                tval == IF tcol = None THEN NaN ELSE Val(df, i, tcol)
                dval == IF dcol = None THEN NaT ELSE Val(df, i, dcol)
            IN  (tval = NaN \/ dval = NaT) =>
                    Val(df, i, N_AccountID) =
                        make_account_id(AsStr(Val(df, i, Resolved(L_CustomerID))),
                                        IF tval = NaN THEN <<>> ELSE tval,
                                        IF dval = NaT THEN <<>> ELSE AsStr(dval))

----------------------------------------------------------------------------
(* C4 *)

KeyedTables ==
    << <<"Customers", N_CustomerID>>, <<"Accounts", N_AccountID>>,
       <<"Transactions", L_TransactionID>>, <<"Loans", N_LoanID>>,
       <<"Cards", L_CardID>>, <<"Feedback", N_FeedbackID>> >>

FirstRowWithKey(srcKey, k) ==
    CHOOSE i \in DOMAIN df.rows :
        Val(df, i, srcKey) = k /\ \A j \in 1..(i - 1) : Val(df, j, srcKey) # k

\* C4: in every table whose primary-key column is present, each key value of
\* the input is in exactly one output row, and that row is the first input
\* row with that key.
C4_FirstOccurrenceWins ==
    Returned =>
        \A t \in DOMAIN KeyedTables :
            LET T  == sheets[KeyedTables[t][1]]
                pk == KeyedTables[t][2]
            IN  Has(T, pk) =>
                    \A src \in {Source(pk)} : \A i \in DOMAIN df.rows :
                        LET k    == Val(df, i, src)
                            hits == {j \in DOMAIN T.rows : Val(T, j, pk) = k}
                        IN  /\ Cardinality(hits) = 1
                            /\ \A j \in hits : T.rows[j] = ProjRow(T, FirstRowWithKey(src, k))

C4_Witness ==
    /\ Returned
    /\ \E t \in DOMAIN KeyedTables :
          LET T  == sheets[KeyedTables[t][1]]
              pk == KeyedTables[t][2]
          IN  /\ Has(T, pk)
              /\ pk # N_AccountID
              /\ \E i, j \in DOMAIN df.rows :
                    /\ i < j
                    /\ Val(df, i, Source(pk)) = Val(df, j, Source(pk))
                    /\ ProjRow(T, i) # ProjRow(T, j)
                    /\ Len(T.rows) = 1

----------------------------------------------------------------------------
(* C5 *)

UnkeyedMasters == << <<"Loans", N_LoanID>>, <<"Cards", L_CardID>>, <<"Feedback", N_FeedbackID>> >>

\* C5 as stated: Transactions, Loans, Cards and Feedback have one row per
\* input row when their primary-key column is not in the input.
C5_NoKeyNoDedup ==
    Returned =>
        /\ ~Has(sheets.Transactions, L_TransactionID)
              => Len(sheets.Transactions.rows) = Len(df.rows)
        /\ \A t \in DOMAIN UnkeyedMasters :
              LET T == sheets[UnkeyedMasters[t][1]]
              IN  ~Has(T, UnkeyedMasters[t][2]) => Len(T.rows) = Len(df.rows)

\* C5 amended: without its primary-key column Transactions has one row per
\* input row, in input order; Loans, Cards and Feedback hold each distinct
\* projected row once.
C5_NoKeyDedupsWholeRows ==
    Returned =>
        /\ ~Has(sheets.Transactions, L_TransactionID)
              => sheets.Transactions.rows =
                    [i \in 1..Len(df.rows) |-> ProjRow(sheets.Transactions, i)]
        /\ \A t \in DOMAIN UnkeyedMasters :
              LET T == sheets[UnkeyedMasters[t][1]]
              IN  ~Has(T, UnkeyedMasters[t][2]) =>
                    /\ Range(T.rows) = {ProjRow(T, i) : i \in DOMAIN df.rows}
                    /\ Cardinality(Range(T.rows)) = Len(T.rows)

C5_Witness ==
    /\ Returned
    /\ ~Has(sheets.Transactions, L_TransactionID)
    /\ ~Has(sheets.Loans, N_LoanID)
    /\ Len(df.rows) = 2
    /\ Len(sheets.Transactions.rows) = 2
    /\ sheets.Transactions.rows[1] = sheets.Transactions.rows[2]
    /\ Len(sheets.Loans.rows) = 1

----------------------------------------------------------------------------
(* C6 *)

FindMatches == {i \in DOMAIN fc.cols : Matches(fc.cols[i], fc.target)}

\* C6: find_col returns the first element whose trimmed lower-cased form is
\* that of the target, and None exactly when no element matches.
C6_FirstMatchOrNone ==
    fc.done =>
        /\ fc.result = None <=> FindMatches = {}
        /\ FindMatches # {} =>
              fc.result = fc.cols[CHOOSE i \in FindMatches : \A j \in FindMatches : i <= j]

C6_Witness ==
    /\ fc.done
    /\ \E i, j \in FindMatches : i < j /\ fc.cols[i] # fc.cols[j]
    /\ fc.result = fc.cols[CHOOSE i \in FindMatches : \A j \in FindMatches : i <= j]
    /\ fc.result # fc.target

----------------------------------------------------------------------------
(* C7 *)

\* C7: Anomalies holds exactly the distinct (CustomerID, Anomaly) pairs of
\* the input rows whose Anomaly is not missing, and is empty, with its two
\* columns, when the input has no Anomaly column.
C7_AnomaliesDistinctPairs ==
    Returned =>
        LET A    == sheets.Anomalies
            acol == Resolved(L_Anomaly)
            ccol == Resolved(L_CustomerID)
        IN  /\ A.columns = <<N_CustomerID, N_Anomaly>>
            /\ acol = None => A.rows = <<>>
            /\ acol # None =>
                  /\ Range(A.rows) = {<<Val(df, i, ccol), Val(df, i, acol)>> :
                                        i \in {r \in DOMAIN df.rows : Val(df, r, acol) # NaN}}
                  /\ Cardinality(Range(A.rows)) = Len(A.rows)

C7_Witness ==
    /\ Returned
    /\ Resolved(L_Anomaly) # None
    /\ \E i, j \in DOMAIN df.rows :
          /\ Val(df, i, Resolved(L_Anomaly)) = NaN
          /\ Val(df, j, Resolved(L_Anomaly)) # NaN
    /\ Len(sheets.Anomalies.rows) = 1

----------------------------------------------------------------------------
(* C8 *)

PhaseOrder == <<"exists", "read", "transform", "write", "summary">>

\* C8: main runs its phases in the order exists, read, transform, write;
\* the first phase that fails is the last that runs and sets the exit
\* status 1, 2, 3 or 4; the summary and status 0 come after four successes.
C8_PhasesInOrder ==
    /\ Len(phases) <= Len(PhaseOrder)
    /\ \A i \in DOMAIN phases : phases[i].phase = PhaseOrder[i]
    /\ \A i \in 1..(Len(phases) - 1) : phases[i].ok
    /\ pc = "exit" <=> exit_code # -1
    /\ stdout # <<>> => exit_code = 0
    /\ pc # "exit" => \A i \in DOMAIN phases : phases[i].ok
    /\ pc = "exit" =>
          IF phases[Len(phases)].ok
          THEN exit_code = 0 /\ Len(phases) = Len(PhaseOrder) /\ stdout # <<>>
          ELSE exit_code = Len(phases) /\ exit_code \in 1..4
    /\ outcome = "raised" <=> (Len(phases) >= 3 /\ ~phases[3].ok)

C8_Witness ==
    /\ pc = "exit"
    /\ exit_code = 3
    /\ phases = <<Ran("exists", TRUE), Ran("read", TRUE), Ran("transform", FALSE)>>

----------------------------------------------------------------------------
(* C9 *)

WithCustomerID == <<"Accounts", "Loans", "Cards", "Feedback", "Anomalies">>

WithBranchID == <<"Accounts", "Transactions", "Loans">>

\* C9: every CustomerID of Accounts, Loans, Cards, Feedback and Anomalies is
\* in Customers, every AccountID of Transactions is in Accounts, and every
\* BranchID of Accounts, Transactions and Loans is in Branches.
C9_ForeignKeysConsistent ==
    Returned =>
        /\ \A t \in DOMAIN WithCustomerID :
              Values(sheets[WithCustomerID[t]], N_CustomerID)
                 \subseteq Values(sheets.Customers, N_CustomerID)
        /\ Values(sheets.Transactions, N_AccountID) \subseteq Values(sheets.Accounts, N_AccountID)
        /\ \A t \in DOMAIN WithBranchID :
              Has(sheets[WithBranchID[t]], N_BranchID) =>
                 Values(sheets[WithBranchID[t]], N_BranchID)
                    \subseteq Values(sheets.Branches, N_BranchID)

C9_Witness ==
    /\ Returned
    /\ Has(sheets.Loans, N_BranchID)
    /\ NaN \in Values(sheets.Loans, N_BranchID)
    /\ Len(sheets.Branches.rows) = 2
    /\ Len(sheets.Customers.rows) = 2

----------------------------------------------------------------------------
(* C10 *)

MissingKeyTables ==
    << <<"Customers", N_CustomerID>>, <<"Transactions", L_TransactionID>>,
       <<"Loans", N_LoanID>>, <<"Cards", L_CardID>>, <<"Feedback", N_FeedbackID>> >>

\* C10: a table deduplicated on a present primary-key column has at most
\* one row whose key is missing.
C10_OneMissingKeyRow ==
    Returned =>
        \A t \in DOMAIN MissingKeyTables :
            LET T  == sheets[MissingKeyTables[t][1]]
                pk == MissingKeyTables[t][2]
            IN  Has(T, pk) =>
                    Cardinality({j \in DOMAIN T.rows : Val(T, j, pk) = NaN}) <= 1

C10_Witness ==
    /\ Returned
    /\ Has(sheets.Loans, N_LoanID)
    /\ Len(df.rows) = 2
    /\ Val(df, 1, Resolved(L_LoanID)) = NaN
    /\ Val(df, 2, Resolved(L_LoanID)) = NaN
    /\ ProjRow(sheets.Loans, 1) # ProjRow(sheets.Loans, 2)
    /\ Len(sheets.Loans.rows) = 1

====
